---- MODULE Spec2Model ----
(***************************************************************************)
(* Model of the Ottawa housing-stress pipeline, src/build_tableau_files.py *)
(*                                                                         *)
(*   detect_ward_id_field   ward-identifier field inference                *)
(*   assign_ward_to_points  first-match point-in-polygon assignment        *)
(*   main                   cleaning, ward aggregation, style shares,      *)
(*                          income join and affordability banding          *)
(*   affordability_band     ratio -> risk label                            *)
(*                                                                         *)
(* Data conventions.  A nullable cell (pandas NaN / None / pd.NA) is NA,   *)
(* the empty tuple; a present value v is Some(v).  A float is a record     *)
(* with kind "fin" (the rational n/d, d > 0), "inf", "ninf" or "nan".      *)
(* Text is a tuple of one-character strings, so that strip() and           *)
(* replace() are computed and not assumed.  Coordinates are points of a    *)
(* small integer grid and a ward geometry is a closed axis-aligned box.    *)
(***************************************************************************)
EXTENDS Integers, Sequences, FiniteSets, TLC

VARIABLES
    pc,             \* position of the run / call
    geojson,        \* wards GeoJSON: [schema, features]
    detected,       \* outcome of detect_ward_id_field
    listings_df,    \* listings table (raw CSV rows, or the argument of a call)
    ward_polygons,  \* list of [ward_id, geometry]
    income_raw,     \* income CSV rows
    has_style,      \* whether the listings CSV has the "ward" (style) column
    income,         \* cleaned income table
    re_df,          \* cleaned listings
    re_with_ward,   \* listings with their Ward
    ward_agg,       \* ward-level table
    dashboard,      \* joined table
    ratio,          \* argument of a direct affordability_band call
    band            \* its result

vars == <<pc, geojson, detected, listings_df, ward_polygons, income_raw,
          has_style, income, re_df, re_with_ward, ward_agg, dashboard,
          ratio, band>>

----------------------------------------------------------------------------
(* Bounds of the model *)

MaxRatioNum == 36
MaxRatioDen == 4
MaxFeatures == 2
MaxFields == 2
MaxRows == 3
MaxWards == 2
MaxListings == 3
MaxJoinListings == 2
MaxIncomeRows == 2

----------------------------------------------------------------------------
(* Nullable cells and floats *)

NA == <<>>

Some(v) == <<v>>

isna(x) == x = NA

Val(x) == x[1]

Fin(n, d) == [k |-> "fin", n |-> n, d |-> d]

NaN == [k |-> "nan", n |-> 0, d |-> 1]

PInf == [k |-> "inf", n |-> 0, d |-> 1]

NInf == [k |-> "ninf", n |-> 0, d |-> 1]

\* pd.isna on a float
float_isna(x) == x.k = "nan"

\* x < c for a float x and an integer literal c (IEEE: every comparison
\* with NaN is false, -inf is below and +inf above every number)
float_lt(x, c) ==
    CASE x.k = "fin" -> x.n < c * x.d
      [] x.k = "ninf" -> TRUE
      [] OTHER -> FALSE

\* a / b on float columns (numpy true division: x/0 is +-inf, 0/0 is NaN,
\* NaN propagates; no ZeroDivisionError is raised)
float_div(a, b) ==
    IF a.k = "nan" \/ b.k = "nan" THEN NaN
    ELSE IF a.k # "fin" \/ b.k # "fin" THEN NaN
    ELSE IF b.n = 0
         THEN (IF a.n > 0 THEN PInf ELSE IF a.n < 0 THEN NInf ELSE NaN)
    ELSE IF b.n > 0 THEN Fin(a.n * b.d, a.d * b.n)
    ELSE Fin(-(a.n * b.d), a.d * (-b.n))

----------------------------------------------------------------------------
(* affordability_band *)

\* The labels; the source writes the ranges with an en dash.
Unknown == "Unknown"

MoreAffordable == "More Affordable (<4x)"

Stretched == "Stretched (4-6x)"

HighRisk == "High Risk (6-8x)"

SevereRisk == "Severe Risk (8x+)"

\* faulty variant: the first boundary closed on the upper edge
affordability_band_le(r) ==
    IF float_isna(r) THEN Unknown
    ELSE IF float_lt(r, 4) \/ (r.k = "fin" /\ r.n = 4 * r.d) THEN MoreAffordable
    ELSE IF float_lt(r, 6) THEN Stretched
    ELSE IF float_lt(r, 8) THEN HighRisk
    ELSE SevereRisk

affordability_band(r) ==
    IF float_isna(r) THEN Unknown
    ELSE IF float_lt(r, 4) THEN MoreAffordable
    ELSE IF float_lt(r, 6) THEN Stretched
    ELSE IF float_lt(r, 8) THEN HighRisk
    ELSE SevereRisk

RatioInputs ==
    {Fin(n, d) : n \in 0..MaxRatioNum, d \in 1..MaxRatioDen} \cup {NaN, PInf, NInf}

\* values of the variables a specification does not use
IdleBand == ratio = NaN /\ band = NA

IdleDetect == geojson = [schema |-> <<>>, features |-> <<>>] /\ detected = NA

IdleTables ==
    /\ income_raw = <<>>
    /\ has_style = FALSE
    /\ income = <<>>
    /\ re_df = <<>>
    /\ ward_agg = <<>>
    /\ dashboard = <<>>

IdleListings == listings_df = <<>> /\ ward_polygons = <<>> /\ re_with_ward = <<>>

InitBand ==
    /\ pc = "band"
    /\ ratio \in RatioInputs
    /\ band = NA
    /\ IdleDetect
    /\ IdleListings
    /\ IdleTables

Classify ==
    /\ pc = "band"
    /\ band' = Some(affordability_band(ratio))
    /\ pc' = "classified"
    /\ UNCHANGED <<geojson, detected, listings_df, ward_polygons, income_raw,
                   has_style, income, re_df, re_with_ward, ward_agg, dashboard,
                   ratio>>

SpecBand == InitBand /\ [][Classify]_vars

----------------------------------------------------------------------------
(* detect_ward_id_field *)

\* A property value of a GeoJSON feature: a Python int, a str, None, or a
\* float with integral value i (printed "i.0").
IntV(i) == [t |-> "int", i |-> i, s |-> <<>>]

StrV(s) == [t |-> "str", i |-> 0, s |-> s]

NoneV == [t |-> "none", i |-> 0, s |-> <<>>]

FloatV(i) == [t |-> "float", i |-> i, s |-> <<>>]

DigitChars == <<"0", "1", "2", "3", "4", "5", "6", "7", "8", "9">>

IsDigit(c) == \E d \in 1..10 : DigitChars[d] = c

DigitVal(c) == (CHOOSE d \in 1..10 : DigitChars[d] = c) - 1

IsSpace(c) == c \in {" ", "\t", "\n", "\r"}

RECURSIVE Digits(_)
\* decimal digits of n >= 0
Digits(n) == IF n < 10 THEN <<DigitChars[n + 1]>>
             ELSE Append(Digits(n \div 10), DigitChars[(n % 10) + 1])

\* str(v)
py_str(v) ==
    CASE v.t = "int" -> (IF v.i < 0 THEN <<"-">> \o Digits(-v.i) ELSE Digits(v.i))
      [] v.t = "str" -> v.s
      [] v.t = "none" -> <<"N", "o", "n", "e">>
      [] v.t = "float" ->
            (IF v.i < 0 THEN <<"-">> \o Digits(-v.i) ELSE Digits(v.i)) \o <<".", "0">>

RECURSIVE lstrip(_)
lstrip(s) == IF s # <<>> /\ IsSpace(Head(s)) THEN lstrip(Tail(s)) ELSE s

RECURSIVE rstrip(_)
rstrip(s) == IF s # <<>> /\ IsSpace(s[Len(s)]) THEN rstrip(SubSeq(s, 1, Len(s) - 1)) ELSE s

\* s.strip()
strip(s) == rstrip(lstrip(s))

RECURSIVE DigitsValue(_, _)
\* value of a digit string, most significant digit first
DigitsValue(s, acc) ==
    IF s = <<>> THEN acc ELSE DigitsValue(Tail(s), 10 * acc + DigitVal(Head(s)))

\* int(s) for a str s: Some(value), or NA where Python raises ValueError.
\* Accepts an optional sign followed by one or more decimal digits.
py_int(s) ==
    LET body == IF s # <<>> /\ Head(s) \in {"+", "-"} THEN Tail(s) ELSE s
        neg == s # <<>> /\ Head(s) = "-"
    IN  IF body # <<>> /\ \A j \in 1..Len(body) : IsDigit(body[j])
        THEN Some(IF neg THEN -DigitsValue(body, 0) ELSE DigitsValue(body, 0))
        ELSE NA

\* int(str(v).strip()) inside the try block
parse_value(v) == py_int(strip(py_str(v)))

\* vals: the value of key number j in every feature
column(features, j) == [f \in 1..Len(features) |-> features[f][j]]

RECURSIVE count_in_range(_, _)
\* in_range: how many converted values lie in 1..30
count_in_range(vals, n) ==
    IF n = 0 THEN 0
    ELSE count_in_range(vals, n - 1)
         + (IF ~isna(parse_value(vals[n]))
               /\ 1 <= Val(parse_value(vals[n])) /\ Val(parse_value(vals[n])) <= 30
            THEN 1 ELSE 0)

\* faulty variant: ok counts only the plausible ward numbers
count_ok_plausible(vals, n) == count_in_range(vals, n)

RECURSIVE count_ok(_, _)
\* ok: how many of vals[1..n] convert
count_ok(vals, n) ==
    IF n = 0 THEN 0
    ELSE count_ok(vals, n - 1) + (IF isna(parse_value(vals[n])) THEN 0 ELSE 1)

\* faulty variant: a later field with an equal score replaces the best one
better_ge(score, best_score) == score >= best_score

\* the test that replaces the best key
better(score, best_score) == score > best_score

RECURSIVE scan_keys(_, _, _, _)
\* the loop over candidate_keys from key number j on
scan_keys(g, j, best_key, best_score) ==
    IF j > Len(g.schema) THEN best_key
    ELSE LET vals == column(g.features, j)
             ok == count_ok(vals, Len(vals))
             score == ok + count_in_range(vals, Len(vals))
         IN  IF ok = 0 THEN scan_keys(g, j + 1, best_key, best_score)
             ELSE IF better(score, best_score)
                  THEN scan_keys(g, j + 1, Some(g.schema[j]), score)
                  ELSE scan_keys(g, j + 1, best_key, best_score)

Returned(v) == [raised |-> NA, value |-> Some(v)]

Raised(e) == [raised |-> Some(e), value |-> NA]

detect_ward_id_field(g) ==
    IF g.features = <<>> THEN Raised("ValueError")
    ELSE LET best_key == scan_keys(g, 1, NA, -1)
         IN  IF isna(best_key) THEN Raised("ValueError") ELSE Returned(Val(best_key))

\* field names, in the order of the first feature's properties
FieldNames == <<"OBJECTID", "WARD_NUM", "NAME", "AREA">>

NarrowValues == {IntV(30), IntV(31), NoneV}

WideValues ==
    {IntV(0), IntV(1), IntV(-3), FloatV(1), StrV(<<"1", "2">>), StrV(<<"+", "5">>),
     StrV(<<" ", "7", " ">>), StrV(<<"W", "1">>), StrV(<<>>), StrV(<<"3", " ", "1">>)}

\* the spec's example: OBJECTID = [101,102,103], WARD_NUM = [1,2,3]
ExampleGeojson ==
    [schema |-> <<"OBJECTID", "WARD_NUM">>,
     features |-> << <<IntV(101), IntV(1)>>, <<IntV(102), IntV(2)>>,
                     <<IntV(103), IntV(3)>> >>]

\* a collection of n features over the first nf field names
Collection(nf, fs) == [schema |-> SubSeq(FieldNames, 1, nf), features |-> fs]

InitDetect ==
    /\ pc = "detect"
    /\ \/ \E nf \in 0..MaxFields : \E n \in 0..MaxFeatures :
             \E fs \in [1..n -> [1..nf -> NarrowValues]] : geojson = Collection(nf, fs)
       \/ \E nf \in 1..MaxFields :
             \E fs \in [1..1 -> [1..nf -> WideValues]] : geojson = Collection(nf, fs)
       \/ geojson = ExampleGeojson
    /\ detected = NA
    /\ IdleBand
    /\ IdleListings
    /\ IdleTables

Detect ==
    /\ pc = "detect"
    /\ detected' = Some(detect_ward_id_field(geojson))
    /\ pc' = "detected"
    /\ UNCHANGED <<geojson, listings_df, ward_polygons, income_raw, has_style,
                   income, re_df, re_with_ward, ward_agg, dashboard, ratio, band>>

SpecDetect == InitDetect /\ [][Detect]_vars

----------------------------------------------------------------------------
(* Claims about affordability_band *)

BandOf == Val(band)

\* C4: every finite non-negative ratio gets exactly one of the four risk
\* bands, with boundaries closed on the lower edge: below 4 More Affordable,
\* from 4 up to (not including) 6 Stretched, from 6 up to 8 High Risk, 8 and
\* above Severe Risk.
C4_BandIntervals ==
    (pc = "classified" /\ ratio.k = "fin" /\ ratio.n >= 0) =>
        /\ BandOf \in {MoreAffordable, Stretched, HighRisk, SevereRisk}
        /\ (BandOf = MoreAffordable) <=> (ratio.n < 4 * ratio.d)
        /\ (BandOf = Stretched) <=> (4 * ratio.d <= ratio.n /\ ratio.n < 6 * ratio.d)
        /\ (BandOf = HighRisk) <=> (6 * ratio.d <= ratio.n /\ ratio.n < 8 * ratio.d)
        /\ (BandOf = SevereRisk) <=> (8 * ratio.d <= ratio.n)

\* a ratio of exactly 4 (written 8/2) classified as Stretched
C4_Witness ==
    pc = "classified" /\ ratio = Fin(8, 2) /\ BandOf = Stretched

----------------------------------------------------------------------------
(* Claims about detect_ward_id_field *)

FieldIdx == 1..Len(geojson.schema)

FeatIdx == 1..Len(geojson.features)

Parses(f, j) == ~isna(parse_value(geojson.features[f][j]))

Plausible(f, j) ==
    /\ Parses(f, j)
    /\ Val(parse_value(geojson.features[f][j])) \in 1..30

\* ok + in_range of field number j, counted as sets of records
Score(j) ==
    Cardinality({f \in FeatIdx : Parses(f, j)})
    + Cardinality({f \in FeatIdx : Plausible(f, j)})

DetectDone == pc = "detected"

DetectResult == Val(detected)

\* C6: the returned field has the highest score ok + in_range, and among
\* the fields sharing that score it is the first in schema order; for
\* OBJECTID = [101,102,103], WARD_NUM = [1,2,3] it is WARD_NUM.
C6_HighestScoreFirst ==
    (DetectDone /\ isna(DetectResult.raised)) =>
        /\ \E j \in FieldIdx :
              /\ geojson.schema[j] = Val(DetectResult.value)
              /\ \A i \in FieldIdx : Score(i) <= Score(j)
              /\ \A i \in 1..(j - 1) : Score(i) < Score(j)
        /\ (geojson = ExampleGeojson => Val(DetectResult.value) = "WARD_NUM")

\* two fields tie for the highest score and the earlier one is returned
C6_Witness ==
    /\ DetectDone
    /\ isna(DetectResult.raised)
    /\ \E i, j \in FieldIdx :
          /\ i < j
          /\ Score(i) = Score(j)
          /\ \A h \in FieldIdx : Score(h) <= Score(i)
          /\ Val(DetectResult.value) = geojson.schema[i]

\* C7: the call raises exactly when the collection is empty or no field has
\* a value that parses as an integer; otherwise it returns a field name.
\* (The error the source raises is a ValueError.)
C7_RaisesIffNothingParses ==
    DetectDone =>
        /\ (DetectResult.raised = Some("ValueError"))
              <=> (geojson.features = <<>>
                   \/ \A j \in FieldIdx : \A f \in FeatIdx : ~Parses(f, j))
        /\ isna(DetectResult.raised) <=> ~isna(DetectResult.value)
        /\ ~isna(DetectResult.value) => \E j \in FieldIdx :
              geojson.schema[j] = Val(DetectResult.value)

\* a non-empty collection with fields, none of whose values parses: raised;
\* the only parseable values out of the ward range would still return
C7_Witness ==
    /\ DetectDone
    /\ geojson.features # <<>>
    /\ geojson.schema # <<>>
    /\ DetectResult.raised = Some("ValueError")

----------------------------------------------------------------------------
(* assign_ward_to_points *)

\* A listing row: idx is its index label (row labels are unique, as
\* read_csv and dropna leave them); the cells are nullable.
Listing(i, lat, lon, price, style) ==
    [idx |-> i, latitude |-> lat, longitude |-> lon, Price |-> price,
     Listing_Style |-> style]

\* the row with its Ward cell
WithWard(row, w) ==
    [idx |-> row.idx, latitude |-> row.latitude, longitude |-> row.longitude,
     Price |-> row.Price, Listing_Style |-> row.Listing_Style, Ward |-> w]

\* shapely Point(x, y)
Point(x, y) == [x |-> x, y |-> y]

\* a closed box as ward geometry
Box(xmin, xmax, ymin, ymax) == [xmin |-> xmin, xmax |-> xmax, ymin |-> ymin, ymax |-> ymax]

\* poly.covers(pt): interior or boundary
covers(poly, pt) ==
    /\ poly.xmin <= pt.x /\ pt.x <= poly.xmax
    /\ poly.ymin <= pt.y /\ pt.y <= poly.ymax

\* faulty variant: x taken from the latitude
point_of_latlon(row) == Point(Val(row.latitude), Val(row.longitude))

\* pt = Point(float(lon), float(lat))
point_of(row) == Point(Val(row.longitude), Val(row.latitude))

RECURSIVE last_match(_, _, _, _)
\* faulty variant: the loop without its break
last_match(wards, pt, j, assigned) ==
    IF j > Len(wards) THEN assigned
    ELSE IF covers(wards[j].geometry, pt)
         THEN last_match(wards, pt, j + 1, Some(wards[j].ward_id))
         ELSE last_match(wards, pt, j + 1, assigned)

RECURSIVE first_match_from(_, _, _)
first_match_from(wards, pt, j) ==
    IF j > Len(wards) THEN NA
    ELSE IF covers(wards[j].geometry, pt) THEN Some(wards[j].ward_id)
    ELSE first_match_from(wards, pt, j + 1)

\* faulty variant of the inner loop
no_break_match(wards, pt) == last_match(wards, pt, 1, NA)

\* the inner loop: assigned = None; for ward_id, poly in wards: ... break
first_match(wards, pt) == first_match_from(wards, pt, 1)

\* pd.isna(lat) or pd.isna(lon)
bad_coordinates(row) == isna(row.latitude) \/ isna(row.longitude)

\* the Ward cell of one row after the loop body
ward_cell(row, wards) ==
    IF bad_coordinates(row) THEN NA ELSE first_match(wards, point_of(row))

RECURSIVE dropna_ward(_)
\* out.dropna(subset=["Ward"]), then astype(int)
dropna_ward(rows) ==
    IF rows = <<>> THEN <<>>
    ELSE IF isna(Head(rows).Ward) THEN dropna_ward(Tail(rows))
    ELSE <<WithWard(Head(rows), Val(Head(rows).Ward))>> \o dropna_ward(Tail(rows))

assign_ward_to_points(df, polygons) ==
    LET wards == [j \in 1..Len(polygons) |->
                    [ward_id |-> polygons[j].ward_id, geometry |-> polygons[j].geometry]]
        out == [i \in 1..Len(df) |-> WithWard(df[i], ward_cell(df[i], wards))]
    IN  dropna_ward(out)

\* faulty variant: out = listings_df without copy(), so the Ward column is
\* written into the caller's table
listings_written_in_place(df, polygons) ==
    [i \in 1..Len(df) |-> WithWard(df[i], ward_cell(df[i], polygons))]

\* the caller's listings table after the call: the function works on
\* listings_df.copy() and rebinds out, so no write reaches the argument
listings_after_call(df, polygons) == df

\* the caller's polygon list after the call: the loop only reads each
\* w["geometry"] and w["ward_id"] into the new list wards
polygons_after_call(df, polygons) == polygons

\* ward polygons the model draws from: wards 1 and 2 share the edge x = 1,
\* ward 3 overlaps ward 2
WardCatalog ==
    {[ward_id |-> 1, geometry |-> Box(0, 1, 0, 0)],
     [ward_id |-> 2, geometry |-> Box(1, 2, 0, 1)],
     [ward_id |-> 3, geometry |-> Box(0, 2, 1, 1)]}

Lats == {NA, Some(0), Some(1)}

Lons == {NA, Some(0), Some(1), Some(2)}

\* the table of n rows labelled 0..n-1 (a RangeIndex) with the cells c[i] =
\* <<latitude, longitude, Price, Listing_Style>>
Table(n, c) == [i \in 1..n |-> Listing(i - 1, c[i][1], c[i][2], c[i][3], c[i][4])]

InitAssign ==
    /\ pc = "call"
    /\ \E n \in 0..MaxRows : \E c \in [1..n -> Lats \X Lons \X {Some(1)} \X {NA}] :
          listings_df = Table(n, c)
    \* polygon lists without repetition: ward_id is unique across the set
    /\ \E n \in 0..MaxWards : \E ps \in [1..n -> WardCatalog] :
          /\ \A i, j \in 1..n : i # j => ps[i] # ps[j]
          /\ ward_polygons = ps
    /\ re_with_ward = <<>>
    /\ IdleBand
    /\ IdleDetect
    /\ IdleTables

CallAssign ==
    /\ pc = "call"
    /\ re_with_ward' = assign_ward_to_points(listings_df, ward_polygons)
    /\ listings_df' = listings_after_call(listings_df, ward_polygons)
    /\ ward_polygons' = polygons_after_call(listings_df, ward_polygons)
    /\ pc' = "returned"
    /\ UNCHANGED <<geojson, detected, income_raw, has_style, income, re_df,
                   ward_agg, dashboard, ratio, band>>

SpecAssign == InitAssign /\ [][CallAssign]_vars

----------------------------------------------------------------------------
(* Claims about assign_ward_to_points *)

AssignDone == pc = "returned"

\* the position of the polygon with the given ward_id
PolyIdx(w) == CHOOSE j \in 1..Len(ward_polygons) : ward_polygons[j].ward_id = w

HasPoint(row) == ~isna(row.latitude) /\ ~isna(row.longitude)

\* the listing's point: x is the longitude, y the latitude
PointAt(row) == [x |-> Val(row.longitude), y |-> Val(row.latitude)]

CoveredBy(row, j) == covers(ward_polygons[j].geometry, PointAt(row))

\* C1: first match: the polygon whose ward_id a result row carries covers
\* the row's point, and no polygon earlier in the supplied order does.
C1_FirstMatch ==
    AssignDone =>
        \A r \in 1..Len(re_with_ward) :
            LET row == re_with_ward[r] IN
            /\ HasPoint(row)
            /\ \E j \in 1..Len(ward_polygons) : ward_polygons[j].ward_id = row.Ward
            /\ CoveredBy(row, PolyIdx(row.Ward))
            /\ \A i \in 1..(PolyIdx(row.Ward) - 1) : ~CoveredBy(row, i)

\* a row covered by two polygons got the ward of the earlier one
C1_Witness ==
    /\ AssignDone
    /\ \E r \in 1..Len(re_with_ward) : \E i, j \in 1..Len(ward_polygons) :
          /\ i < j
          /\ CoveredBy(re_with_ward[r], i)
          /\ CoveredBy(re_with_ward[r], j)
          /\ re_with_ward[r].Ward = ward_polygons[i].ward_id

Assignable(row) ==
    HasPoint(row) /\ \E j \in 1..Len(ward_polygons) : CoveredBy(row, j)

\* C2: the call returns (it does not raise) exactly the listings with both
\* coordinates whose point some polygon covers: every such listing is in the
\* result once, nothing else is, and rows in - rows out is the number of
\* unassignable rows.
C2_ExactlyAssignable ==
    AssignDone =>
        /\ \A i \in 1..Len(listings_df) :
              Assignable(listings_df[i]) <=>
                  \E r \in 1..Len(re_with_ward) : re_with_ward[r].idx = listings_df[i].idx
        /\ \A r \in 1..Len(re_with_ward) :
              \E i \in 1..Len(listings_df) : listings_df[i].idx = re_with_ward[r].idx
        /\ \A r, q \in 1..Len(re_with_ward) :
              re_with_ward[r].idx = re_with_ward[q].idx => r = q
        /\ Len(re_with_ward) <= Len(listings_df)
        /\ Len(listings_df) - Len(re_with_ward)
              = Cardinality({i \in 1..Len(listings_df) : ~Assignable(listings_df[i])})

\* one listing kept, one dropped for a missing longitude, one dropped for
\* lying outside every polygon
C2_Witness ==
    /\ AssignDone
    /\ ward_polygons # <<>>
    /\ Len(re_with_ward) >= 1
    /\ \E i \in 1..Len(listings_df) :
          /\ ~isna(listings_df[i].latitude)
          /\ isna(listings_df[i].longitude)
    /\ \E i \in 1..Len(listings_df) :
          HasPoint(listings_df[i]) /\ ~Assignable(listings_df[i])

\* the position in the table df of the row labelled i
RowAt(df, i) == CHOOSE p \in 1..Len(df) : df[p].idx = i

\* out is df's row with the one added field Ward
SameRowPlusWard(out, row) ==
    /\ DOMAIN out = DOMAIN row \cup {"Ward"}
    /\ "Ward" \notin DOMAIN row
    /\ \A f \in DOMAIN row : out[f] = row[f]

\* the table res is derived from df and polygons: its rows are rows of df,
\* in df's order, unchanged but for an added integer Ward that is the
\* ward_id of one of the polygons
DerivedFrom(res, df, polygons) ==
    /\ \A r \in 1..Len(res) :
          /\ \E p \in 1..Len(df) : df[p].idx = res[r].idx
          /\ SameRowPlusWard(res[r], df[RowAt(df, res[r].idx)])
          /\ res[r].Ward \in Int
          /\ \E j \in 1..Len(polygons) : polygons[j].ward_id = res[r].Ward
    /\ \A r, q \in 1..Len(res) :
          r < q => RowAt(df, res[r].idx) < RowAt(df, res[q].idx)

\* C11: the call derives a new table and leaves its inputs as they were:
\* the listings table and the polygon list are the same after the call, the
\* surviving rows are in their original relative order with every original
\* field unchanged, and the only addition is a Ward field holding an
\* integer that is the ward_id of one of the supplied polygons.
C11_DerivedNotMutated ==
    [][pc = "call" =>
          /\ listings_df' = listings_df
          /\ ward_polygons' = ward_polygons
          /\ DerivedFrom(re_with_ward', listings_df, ward_polygons)]_vars

\* three listings, the middle one dropped, the first and the third kept in
\* that order with different wards, and the inputs as they were drawn
C11_Witness ==
    /\ AssignDone
    /\ Len(listings_df) = 3
    /\ Len(re_with_ward) = 2
    /\ re_with_ward[1].idx = listings_df[1].idx
    /\ re_with_ward[2].idx = listings_df[3].idx
    /\ re_with_ward[1].Ward # re_with_ward[2].Ward
    /\ \A i \in 1..3 : "Ward" \notin DOMAIN listings_df[i]

----------------------------------------------------------------------------
(* main: cleaning, aggregation, style shares, income join.                 *)
(* The walkScore column and its median enter no property stated below and  *)
(* are left out of the tables.                                             *)

\* income: to_numeric/dropna on Ward, astype(int), to_numeric/dropna on
\* Average_Household_Income
clean_income(raw) ==
    LET has_ward(r) == ~isna(r.Ward)
        has_income(r) == ~isna(r.Average_Household_Income)
        kept == SelectSeq(SelectSeq(raw, has_ward), has_income)
    IN  [i \in 1..Len(kept) |->
            [Ward |-> Val(kept[i].Ward),
             Average_Household_Income |-> Fin(Val(kept[i].Average_Household_Income), 1)]]

\* re_df: rename ward -> Listing_Style when the column exists, Price from
\* parse_money_to_float (NA where it returns NaN), dropna on latitude,
\* longitude and Price
clean_listings(raw, styled) ==
    LET complete(r) == ~isna(r.latitude) /\ ~isna(r.longitude) /\ ~isna(r.Price)
        kept == SelectSeq(raw, complete)
    IN  [i \in 1..Len(kept) |->
            Listing(kept[i].idx, kept[i].latitude, kept[i].longitude, kept[i].Price,
                    IF styled THEN kept[i].Listing_Style ELSE NA)]

RECURSIVE sorted_seq(_)
\* the elements of a finite set of integers in ascending order
sorted_seq(S) ==
    IF S = {} THEN <<>>
    ELSE LET m == CHOOSE x \in S : \A y \in S : x <= y
         IN  <<m>> \o sorted_seq(S \ {m})

RECURSIVE insert_sorted(_, _)
insert_sorted(s, v) ==
    IF s = <<>> THEN <<v>>
    ELSE IF v <= Head(s) THEN <<v>> \o s
    ELSE <<Head(s)>> \o insert_sorted(Tail(s), v)

RECURSIVE sort_values(_)
sort_values(s) == IF s = <<>> THEN <<>> ELSE insert_sorted(sort_values(Tail(s)), Head(s))

RECURSIVE sum_values(_)
sum_values(s) == IF s = <<>> THEN 0 ELSE Head(s) + sum_values(Tail(s))

\* faulty variant: the upper middle value for an even count
median_upper(values) ==
    LET s == sort_values(values)
        n == Len(s)
    IN  IF n = 0 THEN NaN ELSE Fin(s[(n \div 2) + 1], 1)

\* "median": the middle value, or the mean of the two middle values
median(values) ==
    LET s == sort_values(values)
        n == Len(s)
    IN  IF n = 0 THEN NaN
        ELSE IF n % 2 = 1 THEN Fin(s[(n + 1) \div 2], 1)
        ELSE Fin(s[n \div 2] + s[(n \div 2) + 1], 2)

\* "mean"
mean(values) == IF values = <<>> THEN NaN ELSE Fin(sum_values(values), Len(values))

\* the Price cells of the rows of ward w, nulls skipped
ward_prices(rows, w) ==
    LET in_ward(r) == r.Ward = w /\ ~isna(r.Price)
        kept == SelectSeq(rows, in_ward)
    IN  [i \in 1..Len(kept) |-> Val(kept[i].Price)]

\* groupby(["Ward", "Listing_Style"]).size(): rows with a null key are
\* left out of the groups
Style_Count(rows, w, c) ==
    Cardinality({i \in 1..Len(rows) :
                    rows[i].Ward = w /\ rows[i].Listing_Style = Some(c)})

\* the Listing_Style values that form a group somewhere
style_categories(rows) ==
    {Val(rows[i].Listing_Style) : i \in {j \in 1..Len(rows) : ~isna(rows[j].Listing_Style)}}

\* the wards of style_counts
style_wards(rows) ==
    {rows[i].Ward : i \in {j \in 1..Len(rows) : ~isna(rows[j].Listing_Style)}}

RECURSIVE sum_counts(_, _, _)
sum_counts(rows, w, cats) ==
    IF cats = {} THEN 0
    ELSE LET c == CHOOSE x \in cats : TRUE
         IN  Style_Count(rows, w, c) + sum_counts(rows, w, cats \ {c})

\* totals: the sum of Style_Count over the ward's groups
Ward_Total(rows, w) == sum_counts(rows, w, style_categories(rows))

\* str(c).strip().replace(' ', '_') behind the prefix
style_column(c) ==
    LET t == strip(c)
    IN  <<"S", "t", "y", "l", "e", "S", "h", "a", "r", "e", "_">>
        \o [j \in 1..Len(t) |-> IF t[j] = " " THEN "_" ELSE t[j]]

\* one cell of style_pivot after the left merge: the share, 0 where the
\* ward has no such group (fill_value=0), NaN where the ward has no row in
\* style_pivot
style_cell(rows, w, c) ==
    IF w \notin style_wards(rows) THEN NaN
    ELSE IF Style_Count(rows, w, c) = 0 THEN Fin(0, 1)
    ELSE Fin(Style_Count(rows, w, c), Ward_Total(rows, w))

\* ward_agg: groupby("Ward").agg(...), then the merge with style_pivot
aggregate(rows, styled) ==
    LET wards == sorted_seq({rows[i].Ward : i \in 1..Len(rows)})
        cats == IF styled THEN style_categories(rows) ELSE {}
    IN  [k \in 1..Len(wards) |->
            [Ward |-> wards[k],
             Listings |-> Len(ward_prices(rows, wards[k])),
             Median_List_Price |-> median(ward_prices(rows, wards[k])),
             Mean_List_Price |-> mean(ward_prices(rows, wards[k])),
             StyleShare |-> [c \in cats |->
                                [column |-> style_column(c),
                                 value |-> style_cell(rows, wards[k], c)]]]]

\* "Ward " + str(Ward)
ward_label(w) == <<"W", "a", "r", "d", " ">> \o py_str(IntV(w))

RECURSIVE join_rows(_, _)
\* income.merge(ward_agg, on="Ward", how="inner") with the derived columns
join_rows(inc, agg) ==
    IF inc = <<>> THEN <<>>
    ELSE LET same_ward(a) == a.Ward = Head(inc).Ward
             hits == SelectSeq(agg, same_ward)
         IN  [h \in 1..Len(hits) |->
                 [Ward |-> Head(inc).Ward,
                  Average_Household_Income |-> Head(inc).Average_Household_Income,
                  Listings |-> hits[h].Listings,
                  Median_List_Price |-> hits[h].Median_List_Price,
                  Mean_List_Price |-> hits[h].Mean_List_Price,
                  StyleShare |-> hits[h].StyleShare,
                  Affordability_Ratio |->
                      float_div(hits[h].Median_List_Price,
                                Head(inc).Average_Household_Income),
                  Affordability_Band |->
                      affordability_band(
                          float_div(hits[h].Median_List_Price,
                                    Head(inc).Average_Household_Income)),
                  Ward_Label |-> ward_label(Head(inc).Ward)]]
             \o join_rows(Tail(inc), agg)

\* faulty variant: every income row is kept (a left join)
left_join(inc, agg) ==
    LET unmatched(r) == \A k \in 1..Len(agg) : agg[k].Ward # r.Ward
        lone == SelectSeq(inc, unmatched)
    IN  join_rows(inc, agg \o
            [i \in 1..Len(lone) |->
                [Ward |-> lone[i].Ward, Listings |-> 0, Median_List_Price |-> NaN,
                 Mean_List_Price |-> NaN, StyleShare |-> <<>>]])

merge_income(inc, agg) == join_rows(inc, agg)

IncomeRow(w, v) == [Ward |-> w, Average_Household_Income |-> v]

\* the two wards of the pipeline runs
PipelineWards ==
    <<[ward_id |-> 1, geometry |-> Box(0, 1, 0, 0)],
      [ward_id |-> 2, geometry |-> Box(1, 2, 0, 1)]>>

\* <<latitude, longitude>> inside ward 1, inside ward 2, outside both
InWard1 == <<Some(0), Some(0)>>

InWard2 == <<Some(1), Some(2)>>

Outside == <<Some(1), Some(0)>>

\* the cells of a row at the position p
Cells(p, price, style) == <<p[1], p[2], price, style>>

PipelineCoords == {InWard1, InWard2, Outside}

StyleA == <<"A">>

Styles == {NA, Some(StyleA), Some(<<"B", " ", "C">>), Some(<<"B", "_", "C">>)}

\* the spec's end-to-end scenario
ExampleListings ==
    <<Listing(0, Some(0), Some(0), Some(500000), Some(StyleA)),
      Listing(1, Some(0), Some(0), Some(520000), Some(StyleA)),
      Listing(2, Some(0), Some(0), Some(600000), Some(StyleA)),
      Listing(3, Some(1), Some(2), Some(700000), Some(StyleA)),
      Listing(4, Some(1), Some(2), Some(720000), Some(StyleA)),
      Listing(5, Some(1), Some(0), Some(650000), Some(StyleA))>>

InitPipeline ==
    /\ pc = "start"
    /\ ward_polygons = PipelineWards
    /\ income = <<>>
    /\ re_df = <<>>
    /\ re_with_ward = <<>>
    /\ ward_agg = <<>>
    /\ dashboard = <<>>
    /\ IdleBand
    /\ IdleDetect

\* runs that vary the prices
InitPrice ==
    /\ InitPipeline
    /\ \/ \E n \in 0..MaxListings :
             \E c \in [1..n -> {Cells(p, v, Some(StyleA)) :
                                  p \in PipelineCoords, v \in {NA, Some(4), Some(8)}}] :
                listings_df = Table(n, c)
       \/ listings_df = ExampleListings
    /\ has_style \in BOOLEAN
    /\ income_raw = <<IncomeRow(Some(1), Some(1))>>

\* runs that vary the styles
InitStyle ==
    /\ InitPipeline
    /\ \E n \in 0..MaxListings :
          \E c \in [1..n -> {Cells(p, Some(4), y) : p \in PipelineCoords, y \in Styles}] :
             listings_df = Table(n, c)
    /\ has_style = TRUE
    /\ income_raw = <<IncomeRow(Some(1), Some(1))>>

\* runs that vary the income table
InitJoin ==
    /\ InitPipeline
    /\ \E n \in 0..MaxJoinListings :
          \E c \in [1..n -> {Cells(p, Some(8), Some(StyleA)) : p \in PipelineCoords}] :
             listings_df = Table(n, c)
    /\ has_style = TRUE
    /\ \E n \in 0..MaxIncomeRows :
          \E c \in [1..n -> {NA, Some(1), Some(3)} \X {NA, Some(0), Some(2)}] :
             income_raw = [i \in 1..n |-> IncomeRow(c[i][1], c[i][2])]

LoadInputs ==
    /\ pc = "start"
    /\ income' = clean_income(income_raw)
    /\ re_df' = clean_listings(listings_df, has_style)
    /\ pc' = "loaded"
    /\ UNCHANGED <<geojson, detected, listings_df, ward_polygons, income_raw,
                   has_style, re_with_ward, ward_agg, dashboard, ratio, band>>

AssignWards ==
    /\ pc = "loaded"
    /\ re_with_ward' = assign_ward_to_points(re_df, ward_polygons)
    /\ pc' = "assigned"
    /\ UNCHANGED <<geojson, detected, listings_df, ward_polygons, income_raw,
                   has_style, income, re_df, ward_agg, dashboard, ratio, band>>

Aggregate ==
    /\ pc = "assigned"
    /\ ward_agg' = aggregate(re_with_ward, has_style)
    /\ pc' = "aggregated"
    /\ UNCHANGED <<geojson, detected, listings_df, ward_polygons, income_raw,
                   has_style, income, re_df, re_with_ward, dashboard, ratio, band>>

JoinIncome ==
    /\ pc = "aggregated"
    /\ dashboard' = merge_income(income, ward_agg)
    /\ pc' = "done"
    /\ UNCHANGED <<geojson, detected, listings_df, ward_polygons, income_raw,
                   has_style, income, re_df, re_with_ward, ward_agg, ratio, band>>

NextPipeline == LoadInputs \/ AssignWards \/ Aggregate \/ JoinIncome

SpecPrice == InitPrice /\ [][NextPipeline]_vars

SpecStyle == InitStyle /\ [][NextPipeline]_vars

SpecJoin == InitJoin /\ [][NextPipeline]_vars

----------------------------------------------------------------------------
(* Claims about the ward aggregate *)

Aggregated == pc \in {"aggregated", "done"}

AggIdx == 1..Len(ward_agg)

\* equality of two finite floats as rationals
SameNumber(a, b) == a.k = "fin" /\ b.k = "fin" /\ a.n * b.d = b.n * a.d

\* the assigned listings of ward w
Members(w) == {i \in 1..Len(re_with_ward) : re_with_ward[i].Ward = w}

PriceOf(i) == Val(re_with_ward[i].Price)

\* the k-th smallest price of ward w, by counting
Kth(w, k) ==
    CHOOSE v \in {PriceOf(i) : i \in Members(w)} :
        /\ Cardinality({i \in Members(w) : PriceOf(i) < v}) < k
        /\ k <= Cardinality({i \in Members(w) : PriceOf(i) <= v})

\* the median of ward w as a float
MedianByRank(w) ==
    LET n == Cardinality(Members(w))
    IN  IF n % 2 = 1 THEN Fin(Kth(w, (n + 1) \div 2), 1)
        ELSE Fin(Kth(w, n \div 2) + Kth(w, (n \div 2) + 1), 2)

\* the cleaned listings no polygon covers
OutsideRows ==
    {i \in 1..Len(re_df) :
        \A j \in 1..Len(ward_polygons) :
            ~covers(ward_polygons[j].geometry,
                    [x |-> Val(re_df[i].longitude), y |-> Val(re_df[i].latitude)])}

RECURSIVE TotalListings(_)
TotalListings(k) == IF k = 0 THEN 0 ELSE TotalListings(k - 1) + ward_agg[k].Listings

\* C10: one row per distinct ward among the assigned listings, with the
\* number of that ward's listings and the median of their prices (mean of
\* the two middle values for an even count); a listing outside every
\* polygon is counted in no row.  In the end-to-end scenario ward 1 has
\* count 3 and median 520000, ward 2 count 2 and median 710000.
C10_OneRowPerWard ==
    Aggregated =>
        /\ {ward_agg[k].Ward : k \in AggIdx} = {re_with_ward[i].Ward : i \in 1..Len(re_with_ward)}
        /\ \A k, h \in AggIdx : ward_agg[k].Ward = ward_agg[h].Ward => k = h
        /\ \A k \in AggIdx :
              /\ ward_agg[k].Listings = Cardinality(Members(ward_agg[k].Ward))
              /\ SameNumber(ward_agg[k].Median_List_Price, MedianByRank(ward_agg[k].Ward))
        /\ TotalListings(Len(ward_agg)) = Len(re_df) - Cardinality(OutsideRows)
        /\ \A i \in OutsideRows : \A r \in 1..Len(re_with_ward) :
              re_with_ward[r].idx # re_df[i].idx
        /\ listings_df = ExampleListings =>
              /\ Len(ward_agg) = 2
              /\ ward_agg[1].Ward = 1 /\ ward_agg[1].Listings = 3
              /\ SameNumber(ward_agg[1].Median_List_Price, Fin(520000, 1))
              /\ ward_agg[2].Ward = 2 /\ ward_agg[2].Listings = 2
              /\ SameNumber(ward_agg[2].Median_List_Price, Fin(710000, 1))

\* the end-to-end scenario, aggregated: two wards, five counted listings,
\* one listing outside
C10_Witness ==
    /\ pc = "aggregated"
    /\ listings_df = ExampleListings
    /\ Len(ward_agg) = 2
    /\ Cardinality(OutsideRows) = 1

StyleCats(row) == DOMAIN row.StyleShare

RECURSIVE ShareSum(_, _)
\* the sum of the share cells of a row over the categories cats, as a
\* float (NaN as soon as one cell is not finite)
ShareSum(row, cats) ==
    IF cats = {} THEN Fin(0, 1)
    ELSE LET c == CHOOSE x \in cats : TRUE
             rest == ShareSum(row, cats \ {c})
             v == row.StyleShare[c].value
         IN  IF rest.k # "fin" \/ v.k # "fin" THEN NaN
             ELSE Fin(rest.n * v.d + v.n * rest.d, rest.d * v.d)

\* C8: in every row of the ward aggregate the style shares sum to 1.0, and
\* every row has at least one listing - also for wards whose listings have
\* a missing style.  (Read for tables that have share columns at all.)
C8_SharesSumToOne ==
    (Aggregated /\ has_style) =>
        \A k \in AggIdx :
            /\ ward_agg[k].Listings >= 1
            /\ StyleCats(ward_agg[k]) # {} =>
                  SameNumber(ShareSum(ward_agg[k], StyleCats(ward_agg[k])), Fin(1, 1))

\* the categories observed anywhere in the assigned listings
ObservedCats ==
    {Val(re_with_ward[i].Listing_Style) :
        i \in {j \in 1..Len(re_with_ward) : ~isna(re_with_ward[j].Listing_Style)}}

CountIn(w, c) ==
    Cardinality({i \in Members(w) : re_with_ward[i].Listing_Style = Some(c)})

\* C9: the share table is rectangular: every ward row has, for every
\* category observed in the assigned listings, exactly one share field,
\* whose value is the ward's count of that category over the ward's
\* listing count, and 0.0 (not null) where the ward has none.
C9_RectangularShares ==
    (Aggregated /\ has_style) =>
        \A k \in AggIdx : \A c \in ObservedCats :
            /\ c \in StyleCats(ward_agg[k])
            /\ \A e \in StyleCats(ward_agg[k]) :
                  ward_agg[k].StyleShare[e].column = ward_agg[k].StyleShare[c].column
                      => e = c
            /\ SameNumber(ward_agg[k].StyleShare[c].value,
                          Fin(CountIn(ward_agg[k].Ward, c),
                              Cardinality(Members(ward_agg[k].Ward))))

----------------------------------------------------------------------------
(* Claims about the income join *)

Joined == pc = "done"

DashIdx == 1..Len(dashboard)

AggWards == {ward_agg[k].Ward : k \in AggIdx}

IncomeWards == {income[i].Ward : i \in 1..Len(income)}

Min(a, b) == IF a <= b THEN a ELSE b

\* C3: a dashboard row whose ward has zero income (or a null median price)
\* has the band "Unknown": a zero denominator never reaches the threshold
\* comparisons.
C3_ZeroIncomeUnknown ==
    Joined =>
        \A r \in DashIdx :
            (dashboard[r].Average_Household_Income.n = 0
             \/ dashboard[r].Median_List_Price.k = "nan")
                => dashboard[r].Affordability_Band = Unknown

====
